---- MODULE Spec2Model ----
(***************************************************************************)
(* Media acquisition and cache pipeline of mcp-video-recognition:          *)
(* the three recognition tools (image, video, audio), the media downloader *)
(* with its header-strategy retry loop and scratch files, and the MongoDB  *)
(* media store.  Every tool callback is an async function: it runs         *)
(* atomically from one await to the next, so one action of this module is  *)
(* the code between two awaits.                                            *)
(***************************************************************************)
EXTENDS Integers, Sequences, FiniteSets, TLC

VARIABLES
  mediaCollection,  \* MongoDBService.mediaCollection is set
  media,            \* the documents of the media collection, in natural order
  tempDir,          \* the scratch directory: the files [name, data] in it
  req,              \* the tool invocations in flight: arguments, position, locals, trace
  started,          \* number of invocations made so far
  overlap,          \* whether invocations may overlap in time (fixed per behaviour)
  call,             \* the last direct call of a service method and its outcome
  unlinkFails       \* whether fs.unlinkSync throws in the scratch directory (fixed per behaviour)


\* ------------------------------------------------------------------ bounds
\* Number of tool invocations in one behaviour.
MaxReq == 2

\* ------------------------------------------------------- program constants
\* Size ceiling of a download, in model units (the code's default is 100MB).
maxFileSize == 2

\* An absent string (undefined / null), and an absent object.
NULL == "null"
Nil == [nil |-> TRUE]

\* ------------------------------------------------------------- input sets
\* URLs a request may carry.  U1 and U2 are different URLs that share the
\* path basename clip.mp4; U3 has a basename without extension.
U1 == "https://example.com/v/clip.mp4"
U2 == "https://video.fbcdn.net/x/clip.mp4"
U3 == "https://scontent.cdninstagram.com/reel"
Urls == {U1, U2, U3}

\* Two more strings generateFilename may be given: a URL whose last path
\* segment is a dot file, and a relative reference, which `new URL` rejects.
U4 == "https://example.com/media/.thumb"
BadUrl == "clip.mp4"
FilenameUrls == Urls \cup {U4, BadUrl}

\* A URL of the first host whose query string names another site.
U5 == "https://example.com/r?u=https://facebook.com/v.mp4"
StrategyUrls == Urls \cup {U4, U5}

\* new URL(url).host
UrlHost(url) ==
  CASE url = U1 -> "example.com"
    [] url = U2 -> "video.fbcdn.net"
    [] url = U3 -> "scontent.cdninstagram.com"
    [] url = U4 -> "example.com"
    [] url = U5 -> "example.com"

\* new URL(url) does not throw.
UrlParses(url) == url # BadUrl

\* The values crypto.randomBytes(4).toString('hex') may take.
RandomHex8 == {"5f6e7d8c", "9a8b7c6d"}

\* Local paths a request may carry (the last one does not exist on disk).
Paths == {"/data/pic.png", "/data/clip.mp4", "/data/song.mp3", "/data/gone.png"}

Tools == {"image", "video", "audio"}

\* Content-Type header values a server may send.
ContentTypes == {"image/png", "IMAGE/PNG", "video/mp4", "audio/mpeg",
                 "text/html; charset=utf-8"}

\* Texts the analysis backend may return.
AnalysisTexts == {"T1", "T2"}
BackendErrorText == "E1"

\* ------------------------------------------------------ string operations
\* url.includes(needle), for the needles getStrategiesForUrl tests.
Includes(url, needle) ==
  CASE needle = "fbcdn.net" -> url = U2
    [] needle = "facebook.com" -> url = U5
    [] needle = "cdninstagram.com" -> url = U3
    [] needle = "instagram.com" -> url = U3
    [] OTHER -> FALSE

\* path.basename(new URL(url).pathname)
UrlBasename(url) ==
  CASE url = U1 -> "clip.mp4"
    [] url = U2 -> "clip.mp4"
    [] url = U3 -> "reel"
    [] url = U4 -> ".thumb"

\* basename.includes('.')
HasDot(name) == name \in {"clip.mp4", "pic.png", "song.mp3", "gone.png", ".thumb"}

\* crypto.createHash('md5').update(url).digest('hex').substring(0, 8)
Md5Hex8(url) ==
  CASE url = U1 -> "0a1b2c3d"
    [] url = U2 -> "4e5f6a7b"
    [] url = U3 -> "8c9d0e1f"
    [] url = U4 -> "2b3c4d5e"

\* mimeType.split(';')[0].trim().toLowerCase()
BaseMimeType(mimeType) ==
  CASE mimeType = "IMAGE/PNG" -> "image/png"
    [] mimeType = "text/html; charset=utf-8" -> "text/html"
    [] OTHER -> mimeType

\* mime.extension(mimeType) || 'bin'
Extension(mimeType) ==
  CASE BaseMimeType(mimeType) = "image/png" -> "png"
    [] BaseMimeType(mimeType) = "video/mp4" -> "mp4"
    [] BaseMimeType(mimeType) = "audio/mpeg" -> "mpga"
    [] BaseMimeType(mimeType) = "text/html" -> "html"
    [] OTHER -> "bin"

\* mimeType.startsWith(prefix): case-sensitive, on the raw header value.
StartsWith(mimeType, prefix) ==
  CASE prefix = "image/" -> mimeType = "image/png"
    [] prefix = "video/" -> mimeType = "video/mp4"
    [] prefix = "audio/" -> mimeType = "audio/mpeg"
    [] OTHER -> FALSE

\* path.extname(filepath).toLowerCase()
ExtName(filepath) ==
  CASE filepath = "/data/pic.png" -> ".png"
    [] filepath = "/data/clip.mp4" -> ".mp4"
    [] filepath = "/data/song.mp3" -> ".mp3"
    [] filepath = "/data/gone.png" -> ".png"

\* ext.substring(1)
WithoutDot(ext) ==
  CASE ext = ".png" -> "png"
    [] ext = ".mp4" -> "mp4"
    [] ext = ".mp3" -> "mp3"

\* path.basename(filepath)
PathBasename(filepath) ==
  CASE filepath = "/data/pic.png" -> "pic.png"
    [] filepath = "/data/clip.mp4" -> "clip.mp4"
    [] filepath = "/data/song.mp3" -> "song.mp3"
    [] filepath = "/data/gone.png" -> "gone.png"

\* fs.existsSync(filepath) for the caller's local files.
LocalExists(filepath) == filepath # "/data/gone.png"

\* ------------------------------------------------------------ HTTP (axios)
\* What a server may answer to the HEAD probe: no usable answer (any error
\* status, timeout, network error), or a 2xx answer with or without a
\* content-type header.
HeadResponses ==
  {[ok |-> FALSE, ct |-> NULL]} \cup [ok : {TRUE}, ct : ContentTypes \cup {NULL}]

SoftStatuses == {401, 403, 429}
HardStatuses == {404, 500}
\* axios error codes of a GET that got no response: timeout, redirect limit,
\* malformed response.
NoResponseCodes == {"ECONNABORTED", "ERR_FR_TOO_MANY_REDIRECTS", "ERR_BAD_RESPONSE"}
BodySizes == {maxFileSize, maxFileSize + 1}

\* What may come back for the GET: a 200 with a body, an error status, or no
\* response at all.
GetResponses ==
  [status : {200}, ct : ContentTypes \cup {NULL}, size : BodySizes, code : {NULL}]
    \cup [status : SoftStatuses \cup HardStatuses, ct : {NULL}, size : {0}, code : {"ERR_BAD_REQUEST"}]
    \cup [status : {0}, ct : {NULL}, size : {0}, code : NoResponseCodes]

\* response.statusText of the error statuses.
StatusText(status) ==
  CASE status = 401 -> "Unauthorized" [] status = 403 -> "Forbidden"
    [] status = 404 -> "Not Found" [] status = 429 -> "Too Many Requests"
    [] status = 500 -> "Internal Server Error"

\* An error value: axios errors carry a code and, when the server answered,
\* the response status; plain Errors carry only a message.
AxiosError(status, code, message) ==
  [axios |-> TRUE, status |-> status, code |-> code, message |-> message]
PlainError(message) ==
  [axios |-> FALSE, status |-> 0, code |-> NULL, message |-> message]

\* AxiosGet without maxContentLength: the whole body is buffered and handed
\* over, whatever its size.
AxiosGetUnbounded(resp) ==
  IF resp.status = 200
    THEN [err |-> Nil, ct |-> resp.ct, size |-> resp.size]
    ELSE IF resp.status = 0
           THEN [err |-> AxiosError(0, resp.code, resp.code), ct |-> NULL, size |-> 0]
           ELSE [err |-> AxiosError(resp.status, resp.code,
                          "Request failed with status code " \o ToString(resp.status)),
                 ct |-> NULL, size |-> 0]

\* axios.get(url, {maxContentLength: maxFileSize, ...}): the value the await
\* yields for a server answer; err = Nil when it resolves.
AxiosGet(resp) ==
  IF resp.status = 200
    THEN IF resp.size > maxFileSize
           THEN [err |-> AxiosError(0, "ERR_BAD_RESPONSE",
                          "maxContentLength size of " \o ToString(maxFileSize) \o " exceeded"),
                 ct |-> NULL, size |-> 0]
           ELSE [err |-> Nil, ct |-> resp.ct, size |-> resp.size]
    ELSE IF resp.status = 0
           THEN [err |-> AxiosError(0, resp.code, resp.code), ct |-> NULL, size |-> 0]
           ELSE [err |-> AxiosError(resp.status, resp.code,
                          "Request failed with status code " \o ToString(resp.status)),
                 ct |-> NULL, size |-> 0]

\* ------------------------------------------------- MediaDownloaderService
supportedMimeTypes ==
  {"image/jpeg", "image/jpg", "image/png", "image/gif", "image/webp", "image/bmp",
   "video/mp4", "video/mpeg", "video/quicktime", "video/x-msvideo", "video/webm",
   "video/ogg"}

isSupported(mimeType) ==
  IF mimeType = NULL THEN FALSE ELSE BaseMimeType(mimeType) \in supportedMimeTypes

\* The ordered header sets, each named after the browser it emulates.
getStrategiesForUrl(url) ==
  LET isFacebookUrl == Includes(url, "fbcdn.net") \/ Includes(url, "facebook.com")
      isInstagramUrl == Includes(url, "cdninstagram.com") \/ Includes(url, "instagram.com")
  IN  IF isFacebookUrl THEN <<"facebook", "facebook-chrome">>
      ELSE IF isInstagramUrl THEN <<"instagram">>
      ELSE <<"chrome", "firefox", "bot">>

\* generateFilename with the basename never taken.
generateFilenameHashed(url, mimeType) ==
  "media_" \o Md5Hex8(url) \o "." \o Extension(mimeType)

\* generateFilename for a URL that parses (the try block).
generateFilename(url, mimeType) ==
  IF UrlBasename(url) # "" /\ HasDot(UrlBasename(url))
    THEN UrlBasename(url)
    ELSE "media_" \o Md5Hex8(url) \o "." \o Extension(mimeType)

\* The catch of the retry loop: TRUE when the error lets the loop go on to
\* the next strategy.
\* this.tempDir, the path of the scratch directory, and path.join.
tempDirPath == "/tmp/mcp-video-recognition"
pathJoin(dir, name) == dir \o "/" \o name

\* isSoftFailure with every axios error taken as a reason to go on.
isSoftFailureAnyAxios(error) == error.axios

isSoftFailure(error) ==
  error.axios /\ error.status # 0 /\ error.status \in {403, 401, 429}

\* One pass of the loop body from the GET's answer on: the error thrown, or
\* the download result.  `probedType` is the content type the HEAD probe
\* supplied (NULL if none); the bytes are those of URL `url` as received by
\* invocation `r`.
strategyBody(url, probedType, got, r) ==
  LET contentType == IF probedType = NULL THEN got.ct ELSE probedType
      fileData == [src |-> url, by |-> r, length |-> got.size]
      mimeType == IF contentType = NULL THEN "application/octet-stream" ELSE contentType
      filename == generateFilename(url, mimeType)
  IN  IF got.err # Nil THEN [err |-> got.err]
      ELSE IF contentType # NULL /\ ~isSupported(contentType)
        THEN [err |-> PlainError("Unsupported media type: " \o contentType)]
      ELSE IF fileData.length > maxFileSize
        THEN [err |-> PlainError("File too large: " \o ToString(fileData.length)
                                   \o " bytes (max: " \o ToString(maxFileSize) \o " bytes)")]
      ELSE [err |-> Nil, filepath |-> pathJoin(tempDirPath, filename), filename |-> filename,
            mimeType |-> mimeType, fileData |-> fileData, fileSize |-> fileData.length]

\* generateFilename for a string `new URL` rejects (the catch block): a name
\* with a random suffix.
generateFilenameCatch(mimeType) ==
  {"media_" \o randomId \o "." \o Extension(mimeType) : randomId \in RandomHex8}

\* downloadMediaError with one message for every failure.
downloadMediaErrorGeneric(error) == PlainError("Download failed")

\* The catch of downloadMedia: axios errors are reworded, others pass.
downloadMediaError(error) ==
  IF error.axios
    THEN IF error.status # 0
           THEN PlainError("Download failed with status " \o ToString(error.status)
                           \o ": " \o StatusText(error.status))
         ELSE IF error.code = "ECONNABORTED" THEN PlainError("Download timeout")
         ELSE PlainError("Network error: " \o error.message)
    ELSE error

\* The scratch directory is a set of files [name, data], one per name.
\* fs.existsSync, fs.writeFileSync and cleanupTempFile on it.
existsSync(dir, filepath) == \E f \in dir : f.name = filepath

writeFileSync(dir, filepath, fileData) ==
  {f \in dir : f.name # filepath} \cup {[name |-> filepath, data |-> fileData]}

\* fs.unlinkSync when it succeeds.
unlinkSync(dir, filepath) == {f \in dir : f.name # filepath}

\* cleanupTempFile with a path that is absent taken for a file to create.
cleanupTempFileRecreating(dir, filepath) ==
  IF existsSync(dir, filepath)
    THEN unlinkSync(dir, filepath)
    ELSE writeFileSync(dir, filepath, Nil)

\* cleanupTempFile: unlink the file if it exists; an error thrown by
\* unlinkSync is caught and logged, and the file stays.
cleanupTempFile(dir, filepath) ==
  IF existsSync(dir, filepath) /\ ~unlinkFails
    THEN unlinkSync(dir, filepath)
    ELSE dir

\* ---------------------------------------------------------- MongoDBService
\* findOne({url}): the first matching document in natural order, or Nil.
findOneWithAnalysis(coll, url) ==
  IF \E i \in 1..Len(coll) : coll[i].url = url /\ coll[i].analysis # Nil
    THEN coll[CHOOSE i \in 1..Len(coll) :
                /\ coll[i].url = url /\ coll[i].analysis # Nil
                /\ \A j \in 1..(i - 1) : coll[j].url # url \/ coll[j].analysis = Nil]
    ELSE Nil

findOne(coll, url) ==
  IF \E i \in 1..Len(coll) : coll[i].url = url
    THEN coll[CHOOSE i \in 1..Len(coll) :
                /\ coll[i].url = url
                /\ \A j \in 1..(i - 1) : coll[j].url # url]
    ELSE Nil

\* mediaDocument with the analysis left out.
mediaDocumentBare(url, filename, mimeType, fileData, analysis) ==
  [url |-> url, filename |-> filename, mimeType |-> mimeType, fileData |-> fileData,
   fileSize |-> fileData.length, analysis |-> Nil]

\* The document saveMedia builds and inserts (analysis = Nil when none is
\* given).
mediaDocument(url, filename, mimeType, fileData, analysis) ==
  [url |-> url, filename |-> filename, mimeType |-> mimeType, fileData |-> fileData,
   fileSize |-> fileData.length, analysis |-> analysis]

\* insertOne refusing a document whose url the collection already holds.
insertOneUnlessPresent(coll, document) ==
  IF \E k \in 1..Len(coll) : coll[k].url = document.url THEN coll
  ELSE Append(coll, document)

\* mediaCollection.insertOne(document): the document is added; no field is
\* unique but the _id the driver generates.
insertOne(coll, document) == Append(coll, document)

\* ------------------------------------------------------------------- state
vars == <<mediaCollection, media, tempDir, req, started, overlap, call, unlinkFails>>

\* An invocation occupies a slot from its call to its return; the slot keeps
\* the returned result until the next invocation takes it.
Reqs == {1, 2}

\* The arguments of an invocation: the tool called, url and filepath (each
\* possibly absent), the saveToDb flag, and prompt and modelname, both left
\* out.
Sources ==
  [url : Urls, filepath : {NULL}] \cup [url : {NULL}, filepath : Paths]
    \cup {[url |-> NULL, filepath |-> NULL]}

Args == {[tool |-> t, url |-> s.url, filepath |-> s.filepath, saveToDb |-> b,
          prompt |-> NULL, modelname |-> NULL] :
           t \in Tools, s \in Sources, b \in BOOLEAN}

\* The same with a prompt or a modelname given.
Prompts == {NULL, "P1"}
ModelNames == {NULL, "M1"}
PromptPairs == {pm \in Prompts \X ModelNames : pm[1] = NULL \/ pm[2] = NULL}
PromptedArgs ==
  {[a EXCEPT !.prompt = pm[1], !.modelname = pm[2]] : a \in Args, pm \in PromptPairs}

\* The locals of a callback and of downloadWithRetry before they are assigned.
NoLocals ==
  [tempFilePath |-> NULL, filepath |-> NULL, fileData |-> Nil, mimeType |-> NULL,
   filename |-> NULL, sourceUrl |-> NULL, text |-> NULL, i |-> 0]

\* What an invocation has done so far: the outcome of its cache lookup and the
\* stored texts the store held for its URL then, the probes and GETs it
\* issued, how many GETs were answered 401/403/429, the last GET's answer and
\* whether it carried a supported content type, the resolved content type,
\* the scratch file it wrote, its bytes and the header set of the GET that
\* brought them, its calls to the backend and the store, and
\* the text the backend returned as analysis or reported as error, and
\* whether its scratch file was still there
\* when it returned.  The answers to the GETs (nSoft, lastGet, getTypeOk,
\* resolved) are traced for invocations handled one at a time.
NoTrace ==
  [lookup |-> "none", held |-> {}, nHead |-> 0, nGet |-> 0, nSoft |-> 0,
   lastGet |-> Nil, getTypeOk |-> FALSE, resolved |-> NULL, wrote |-> NULL,
   bytes |-> Nil, via |-> NULL, nUpload |-> 0, nProcess |-> 0, analysis |-> NULL, nSave |-> 0,
   reported |-> NULL, nInsert |-> 0, nCleanup |-> 0, leftBehind |-> FALSE]

\* An invocation that has not been made yet: its position, its arguments, its
\* locals `v`, its result and its trace `h`.
NoReq ==
  [pc |-> "idle", tool |-> NULL, url |-> NULL, argpath |-> NULL, saveToDb |-> FALSE,
   prompt |-> NULL, modelname |-> NULL, v |-> NoLocals, result |-> Nil, h |-> NoTrace]

\* Invocations that overlap in time are drawn from the video requests for U1
\* and U2, which share a scratch file name, with caching enabled (with it
\* the three callbacks differ only in the class check and in wording).
OverlapArgs ==
  {a \in PromptedArgs :
     a.tool = "video" /\ a.url \in {U1, U2} /\ a.filepath = NULL /\ a.saveToDb}

\* No service method has been called directly yet: the method `op`, its
\* arguments, the error it threw, the value it returned, whether it reached
\* the collection, the documents before it, the outcome of the last
\* completed connect or disconnect, whether a connect has succeeded since the
\* last disconnect, the clock (Date, in milliseconds), and how createIndexes
\* ended in the last connect that completed.
NoCall ==
  [op |-> "none", arg |-> Nil, threw |-> NULL, value |-> Nil, touched |-> FALSE,
   before |-> <<>>, life |-> "none", up |-> FALSE, now |-> 0, indexes |-> "none"]

InitWith(o) ==
  /\ mediaCollection = FALSE
  /\ media = <<>>
  /\ tempDir = {}
  /\ req = [r \in Reqs |-> NoReq]
  /\ started = 0
  /\ overlap = o
  /\ call = NoCall
  /\ unlinkFails = FALSE

\* The server after construction, handling one invocation at a time.
Init == InitWith(FALSE)

\* The server after construction, handling invocations concurrently.
InitOverlap == InitWith(TRUE)

\* ------------------------------------------------------- the tool callbacks
ToolNoun(tool) ==
  CASE tool = "image" -> "Image" [] tool = "video" -> "Video" [] tool = "audio" -> "Audio"

\* The extensions each tool accepts for a local path.
LocalExtensions(tool) ==
  CASE tool = "image" -> {".jpg", ".jpeg", ".png", ".webp"}
    [] tool = "video" -> {".mp4", ".mpeg", ".mov", ".avi", ".webm"}
    [] tool = "audio" -> {".mp3", ".wav", ".ogg"}

LocalFormatsText(tool) ==
  CASE tool = "image" -> ".jpg, .jpeg, .png, .webp"
    [] tool = "video" -> ".mp4, .mpeg, .mov, .avi, .webm"
    [] tool = "audio" -> ".mp3, .wav, .ogg"

\* "Simple MIME type inference" of the local-path branch.
LocalMimeType(tool, ext) ==
  CASE tool = "image" -> IF ext = ".jpg" THEN "image/jpeg" ELSE "image/" \o WithoutDot(ext)
    [] tool = "video" -> "video/" \o WithoutDot(ext)
    [] tool = "audio" -> "audio/" \o WithoutDot(ext)

\* classMatches with no check at all.
classMatchesAny(tool, mimeType) == TRUE

\* The class check on the MIME type of a download.
classMatches(tool, mimeType) ==
  CASE tool = "image" -> StartsWith(mimeType, "image/")
    [] tool = "video" -> StartsWith(mimeType, "video/")
    [] tool = "audio" -> StartsWith(mimeType, "audio/") \/ StartsWith(mimeType, "video/")

classErrorMessage(tool, mimeType) ==
  CASE tool = "image" -> "URL does not point to an image file. MIME type: " \o mimeType
    [] tool = "video" -> "URL does not point to a video file. MIME type: " \o mimeType
    [] tool = "audio" -> "URL does not point to an audio file. MIME type: " \o mimeType

\* consultsCache with the lookup left out.
consultsCacheNever(tool, saveToDb) == FALSE

\* Whether the tool looks the URL up in the store before downloading.
consultsCache(tool, saveToDb) ==
  CASE tool = "image" -> TRUE
    [] tool = "video" -> TRUE
    [] tool = "audio" -> saveToDb

\* Whether the tool saves after a successful analysis.
savesResult(tool, saveToDb, fileData, sourceUrl) ==
  CASE tool = "image" -> TRUE
    [] tool = "video" -> saveToDb
    [] tool = "audio" -> saveToDb /\ (fileData # Nil \/ sourceUrl # NULL)

\* Whether the local-path branch reads the file into fileData.
readsLocalFile(tool, saveToDb) ==
  CASE tool = "image" -> TRUE
    [] tool = "video" -> saveToDb
    [] tool = "audio" -> saveToDb

\* errorResult with the error thrown on to the caller: no result.
errorResultRethrown(tool, message) == Nil

\* The result the outer catch builds from a thrown error.
errorResult(tool, message) ==
  [text |-> "Error processing " \o tool \o ": " \o message, isError |-> TRUE]

successResult(text) == [text |-> text, isError |-> FALSE]

\* analysisErrorResult with the text reworded as the outer catch does.
analysisErrorResultReworded(text) ==
  [text |-> "Error processing media: " \o text, isError |-> TRUE]

\* The result returned when processFile's result has isError set: its text
\* as it is, flagged.
analysisErrorResult(text) == [text |-> text, isError |-> TRUE]

\* afterSaveFailure with the store error passed on to the caller.
afterSaveFailurePropagated(tool, text) == errorResult(tool, "MongoNetworkError")

\* The callback's result once the inner catch has swallowed a saveMedia
\* error: "Don't fail the entire operation if DB save fails".
afterSaveFailure(tool, text) == successResult(text)

\* finallyCleanup with the release left out.
finallyCleanupSkipped(dir, tempFilePath) == dir

\* The finally block: release the scratch file the callback marked.
finallyCleanup(dir, tempFilePath) ==
  IF tempFilePath # NULL THEN cleanupTempFile(dir, tempFilePath) ELSE dir

\* The callback returns `result` (through its finally block); `rq` is the
\* invocation and `dir` the scratch directory at that point.  Its locals end
\* with it.
Return(r, rq, result, dir) ==
  /\ tempDir' = finallyCleanup(dir, rq.v.tempFilePath)
  /\ req' = [req EXCEPT ![r] =
       [rq EXCEPT !.pc = "done", !.result = result, !.v = NoLocals,
                  !.h.nCleanup = IF rq.v.tempFilePath # NULL THEN @ + 1 ELSE @,
                  !.h.leftBehind = rq.h.wrote # NULL /\ existsSync(tempDir', rq.h.wrote)]]

\* downloadMedia is entered: the first strategy's probe is awaited.
BeginDownload(r, rq) ==
  /\ req' = [req EXCEPT ![r] = [rq EXCEPT !.pc = "download", !.v.i = 1]]
  /\ tempDir' = tempDir

\* localTempFilePath with the caller's file marked for cleanup.
localTempFilePathMarked(filepath) == filepath

\* tempFilePath in the local-path branch: the branch does not assign it, it
\* stays undefined.
localTempFilePath(filepath) == NULL

\* The local-path branch up to the call of uploadFile.
LocalBranch(r, rq) ==
  LET filepath == rq.argpath
      ext == ExtName(filepath)
      at == [rq EXCEPT !.v.filepath = filepath,
                       !.v.tempFilePath = localTempFilePath(filepath)]
  IN  IF ~LocalExists(filepath)
        THEN Return(r, at, errorResult(rq.tool, ToolNoun(rq.tool) \o " file not found: "
                                                  \o filepath), tempDir)
      ELSE IF ext \notin LocalExtensions(rq.tool)
        THEN Return(r, at, errorResult(rq.tool, "Unsupported " \o rq.tool \o " format: "
                                                  \o ext \o ". Supported formats are: "
                                                  \o LocalFormatsText(rq.tool)), tempDir)
      ELSE /\ req' = [req EXCEPT ![r] =
                IF readsLocalFile(rq.tool, rq.saveToDb)
                  THEN [at EXCEPT !.pc = "uploadFile", !.h.nUpload = @ + 1,
                           !.v.fileData = [src |-> filepath, by |-> r, length |-> 1],
                           !.v.filename = PathBasename(filepath),
                           !.v.mimeType = LocalMimeType(rq.tool, ext)]
                  ELSE [at EXCEPT !.pc = "uploadFile", !.h.nUpload = @ + 1]]
           /\ tempDir' = tempDir

\* missingInputError with a message that names neither argument.
missingInputErrorVague == PlainError("Invalid arguments")

\* The error thrown when neither args.url nor args.filepath is given.
missingInputError == PlainError("Either filepath or url must be provided")

\* takesUrlBranch with a filepath, when given, preferred to the URL.
takesUrlBranchUnlessPath(url, filepath) == url # NULL /\ filepath = NULL

\* if (args.url) comes first: the URL branch is taken whenever a URL is
\* given, with or without a filepath.
takesUrlBranch(url, filepath) == url # NULL

\* The tool is invoked with `args`; it runs up to its first await.
Invoke(r, args) ==
  /\ req[r].pc \in {"idle", "done"}
  /\ started < MaxReq
  /\ started' = started + 1
  /\ IF overlap THEN args \in OverlapArgs ELSE r = 1
  /\ LET rq == [NoReq EXCEPT !.tool = args.tool, !.url = args.url,
                              !.argpath = args.filepath, !.saveToDb = args.saveToDb,
                              !.prompt = args.prompt, !.modelname = args.modelname]
     IN  IF takesUrlBranch(args.url, args.filepath)
           THEN IF consultsCache(args.tool, args.saveToDb)
                  THEN IF ~mediaCollection
                         THEN Return(r, [rq EXCEPT !.h.lookup = "failed"],
                                     errorResult(args.tool, "MongoDB not connected"), tempDir)
                         ELSE /\ req' = [req EXCEPT ![r] =
                                   [rq EXCEPT !.pc = "findByUrl", !.h.lookup = "pending"]]
                              /\ tempDir' = tempDir
                  ELSE BeginDownload(r, rq)
         ELSE IF args.filepath # NULL
           THEN LocalBranch(r, rq)
         ELSE Return(r, rq, errorResult(args.tool, missingInputError.message), tempDir)
  /\ UNCHANGED <<mediaCollection, media, overlap, call, unlinkFails>>

\* isCacheHit with the stored record required to be an image.
isCacheHitOfImage(existingMedia) ==
  /\ existingMedia # Nil /\ existingMedia.analysis # Nil
  /\ StartsWith(existingMedia.mimeType, "image/")

\* isCacheHit with a cache that never hits.
isCacheHitNever(existingMedia) == FALSE

\* Whether the document findByUrl yielded ends the request with its stored
\* result.
isCacheHit(existingMedia) == existingMedia # Nil /\ existingMedia.analysis # Nil

\* The result texts of the documents of `url` that carry an analysis.
storedTexts(coll, url) ==
  {coll[k].analysis.result :
     k \in {j \in 1..Len(coll) : coll[j].url = url /\ coll[j].analysis # Nil}}

\* lookupKey with the prompt and the model made part of the key.
lookupKeyWithPrompt(url, prompt, modelname) == url \o "#" \o prompt \o "#" \o modelname

\* mongodbService.findByUrl(args.url): the lookup is by the URL alone, whatever
\* prompt and modelname the request carries.
lookupKey(url, prompt, modelname) == url

\* mongodbService.findByUrl answers: findOne either rejects or yields the
\* first document of the URL; a document with an analysis ends the callback
\* with the stored text, anything else leads on to the download.
FindByUrlDone(r) ==
  /\ req[r].pc = "findByUrl"
  /\ \/ Return(r, [req[r] EXCEPT !.h.lookup = "failed"],
               errorResult(req[r].tool, "MongoNetworkError"), tempDir)
     \/ LET existingMedia ==
              findOne(media, lookupKey(req[r].url, req[r].prompt, req[r].modelname))
            rq == [req[r] EXCEPT !.h.lookup = "answered",
                                 !.h.held = storedTexts(media, req[r].url)]
        IN  IF isCacheHit(existingMedia)
              THEN Return(r, rq, successResult(existingMedia.analysis.result), tempDir)
              ELSE BeginDownload(r, rq)
  /\ UNCHANGED <<mediaCollection, media, started, overlap, call, unlinkFails>>

\* markForCleanup with the mark forgotten.
markForCleanupForgotten(filepath) == NULL

\* tempFilePath = filepath: the downloaded file is marked for cleanup.
markForCleanup(filepath) == filepath

\* headersOf with the first header set used in every pass.
headersOfFirst(strategies, i) == strategies[1]

\* const headers = strategies[i], for the i-th pass of the loop (from 1).
headersOf(strategies, i) == strategies[i]

\* probedContentType with the content type of the error page taken from a
\* probe that failed.
probedContentTypeOfErrorPage(head) ==
  IF head.ok THEN head.ct ELSE "text/html; charset=utf-8"

\* The content type after the probe: the header of a probe that was
\* answered 2xx; a probe that failed in any way is caught and leaves it
\* undefined.
probedContentType(head) == IF head.ok THEN head.ct ELSE NULL

\* One pass of downloadWithRetry's loop: the HEAD probe and the GET are
\* answered (neither touches shared state, so the two awaits are one step),
\* and the code runs on to the next await: the next strategy's probe, the
\* upload, or the callback's return.  lastError is read only in the pass that
\* assigned it, so it is not kept between passes.
downloadPass(r, head, resp) ==
  /\ req[r].pc = "download"
  /\   LET strategies == getStrategiesForUrl(req[r].url)
           headers == headersOf(strategies, req[r].v.i)
           probedType == probedContentType(head)
           out == strategyBody(req[r].url, probedType, AxiosGet(resp), r)
           lastError == out.err
           rq == IF overlap THEN [req[r] EXCEPT !.h.nHead = @ + 1, !.h.nGet = @ + 1] ELSE
                 [req[r] EXCEPT !.h.nHead = @ + 1, !.h.nGet = @ + 1,
                    !.h.nSoft = IF resp.status \in SoftStatuses THEN @ + 1 ELSE @,
                    !.h.lastGet = [status |-> resp.status, code |-> resp.code,
                                   size |-> resp.size],
                    !.h.getTypeOk = resp.ct # NULL /\ isSupported(resp.ct),
                    !.h.resolved = IF resp.status # 200 THEN NULL
                                   ELSE IF probedType # NULL THEN probedType ELSE resp.ct]
       IN  IF out.err # Nil
             THEN IF isSoftFailure(out.err) /\ req[r].v.i < Len(strategies)
                    THEN /\ req' = [req EXCEPT ![r] = [rq EXCEPT !.v.i = @ + 1]]
                         /\ tempDir' = tempDir
                    ELSE Return(r, rq,
                                errorResult(req[r].tool, downloadMediaError(lastError).message),
                                tempDir)
             ELSE LET dir == writeFileSync(tempDir, out.filepath, out.fileData)
                      got == [rq EXCEPT !.v.filepath = out.filepath,
                                !.v.fileData = out.fileData, !.v.mimeType = out.mimeType,
                                !.v.filename = out.filename, !.v.sourceUrl = req[r].url,
                                !.v.tempFilePath = markForCleanup(out.filepath),
                                !.h.wrote = out.filepath, !.h.bytes = out.fileData,
                                !.h.via = headers]
                  IN  IF ~classMatches(req[r].tool, out.mimeType)
                        THEN Return(r, got,
                                    errorResult(req[r].tool,
                                                classErrorMessage(req[r].tool, out.mimeType)),
                                    dir)
                        ELSE /\ req' = [req EXCEPT ![r] =
                                          [got EXCEPT !.pc = "uploadFile", !.h.nUpload = @ + 1]]
                             /\ tempDir' = dir
  /\ UNCHANGED <<mediaCollection, media, started, overlap, unlinkFails>>

\* A pass of the loop, for any answers to its probe and its GET.
Strategy(r) ==
  /\ req[r].pc = "download"
  /\ \E head \in HeadResponses, resp \in GetResponses : downloadPass(r, head, resp)
  /\ UNCHANGED call

\* geminiService.uploadFile answers: it throws, or yields the file handle
\* and processFile is awaited.
UploadDone(r) ==
  /\ req[r].pc = "uploadFile"
  /\ \/ Return(r, req[r], errorResult(req[r].tool, "File upload failed"), tempDir)
     \/ /\ req' = [req EXCEPT ![r] = [@ EXCEPT !.pc = "processFile", !.h.nProcess = @ + 1]]
        /\ tempDir' = tempDir
  /\ UNCHANGED <<mediaCollection, media, started, overlap, call, unlinkFails>>

\* geminiService.processFile answers: it throws, reports an error result, or
\* yields the analysis text; then the result is saved if the tool saves.
ProcessDone(r) ==
  /\ req[r].pc = "processFile"
  /\ \/ Return(r, req[r], errorResult(req[r].tool, "Content generation failed"), tempDir)
     \/ Return(r, [req[r] EXCEPT !.h.reported = BackendErrorText],
               analysisErrorResult(BackendErrorText), tempDir)
     \/ \E text \in AnalysisTexts :
          LET rq == [req[r] EXCEPT !.v.text = text, !.h.analysis = text]
          IN  IF savesResult(rq.tool, rq.saveToDb, rq.v.fileData, rq.v.sourceUrl)
                THEN IF ~mediaCollection
                       THEN Return(r, [rq EXCEPT !.h.nSave = @ + 1],
                                   afterSaveFailure(rq.tool, text), tempDir)
                       ELSE /\ req' = [req EXCEPT ![r] =
                                         [rq EXCEPT !.pc = "saveMedia", !.h.nSave = @ + 1]]
                            /\ tempDir' = tempDir
                ELSE Return(r, rq, successResult(text), tempDir)
  /\ UNCHANGED <<mediaCollection, media, started, overlap, call, unlinkFails>>

\* mongodbService.saveMedia answers: insertOne stored the document, or it
\* rejected and the callback's inner catch swallows the error.
SaveDone(r) ==
  /\ req[r].pc = "saveMedia"
  /\ \/ /\ media' = insertOne(media,
                      mediaDocument(IF req[r].v.sourceUrl # NULL THEN req[r].v.sourceUrl
                                    ELSE req[r].v.filepath,
                                    req[r].v.filename, req[r].v.mimeType, req[r].v.fileData,
                                    [result |-> req[r].v.text]))
        /\ Return(r, [req[r] EXCEPT !.h.nInsert = @ + 1], successResult(req[r].v.text),
                  tempDir)
     \/ /\ media' = media
        /\ Return(r, req[r], afterSaveFailure(req[r].tool, req[r].v.text), tempDir)
  /\ UNCHANGED <<mediaCollection, started, overlap, call, unlinkFails>>

\* MongoDBService.connect: the connection succeeds and the collection is set
\* (index creation may fail without effect), or it throws and the collection
\* stays as it was.
Connect ==
  /\ \/ mediaCollection' = TRUE
     \/ mediaCollection' = mediaCollection
  /\ UNCHANGED <<media, tempDir, req, started, overlap, call, unlinkFails>>

\* MongoDBService.disconnect.
Disconnect ==
  /\ mediaCollection
  /\ mediaCollection' = FALSE
  /\ UNCHANGED <<media, tempDir, req, started, overlap, call, unlinkFails>>

Next ==
  \/ \E r \in Reqs, args \in Args : Invoke(r, args)
  \/ \E r \in Reqs : FindByUrlDone(r)
  \/ \E r \in Reqs : Strategy(r)
  \/ \E r \in Reqs : UploadDone(r)
  \/ \E r \in Reqs : ProcessDone(r)
  \/ \E r \in Reqs : SaveDone(r)
  \/ Connect
  \/ Disconnect

\* Invocations one at a time, with every argument combination.
Spec == Init /\ [][Next]_vars

\* Invocations that overlap in time.
SpecOverlap == InitOverlap /\ [][Next]_vars

\* A record as saveMedia stores it when it is called without an analysis:
\* the media of `url` alone.
incompleteDocument(url) ==
  mediaDocument(url, "clip.mp4", "video/mp4", [src |-> url, by |-> 0, length |-> 1], Nil)

\* The server after construction, over a store that already holds one
\* record without analysis, of U1 or of U3.
InitSeeded ==
  /\ mediaCollection = FALSE
  /\ media \in {insertOne(<<>>, incompleteDocument(u)) : u \in {U1, U3}}
  /\ tempDir = {}
  /\ req = [r \in Reqs |-> NoReq]
  /\ started = 0
  /\ overlap = FALSE
  /\ call = NoCall
  /\ unlinkFails = FALSE

\* The URL requests.
UrlArgs == {a \in Args : a.url # NULL /\ a.filepath = NULL}

NextSeeded ==
  \/ \E args \in UrlArgs : Invoke(1, args)
  \/ FindByUrlDone(1)
  \/ Strategy(1)
  \/ UploadDone(1)
  \/ ProcessDone(1)
  \/ SaveDone(1)
  \/ Connect
  \/ Disconnect

\* URL requests one at a time over a store with a record without analysis.
SpecSeeded == InitSeeded /\ [][NextSeeded]_vars

\* --------------------------------------------- direct calls of the services
\* The store methods and generateFilename called directly, one call at a
\* time, on a store that is connected and disconnected at will.

\* The collection holds at most MaxDocs documents, and the clock reads at most
\* MaxClock.
MaxDocs == 2
MaxClock == 1

\* The url and the bytes saveMedia is given, the analyses saveMedia and
\* updateAnalysis are given, and the ids updateAnalysis is given (a document's
\* _id is its position; the last id is never assigned).
SaveUrl == U1
SaveBytes == [src |-> SaveUrl, by |-> 0, length |-> 1]
Analyses == [result : AnalysisTexts]
Ids == 1..(MaxDocs + 1)

\* new Date(): the clock has not moved since the last reading, or has.
Dates == {t \in {call.now, call.now + 1} : t <= MaxClock}

\* throw new Error('MongoDB not connected')
notConnectedError == "MongoDB not connected"

\* The error of a round trip the server fails.
serverError == "MongoServerError"

\* connect's catch with the collection handle dropped.
afterFailedConnectDropped(coll) == FALSE

\* connect's catch: the error is logged and rethrown; the fields keep what
\* they held, so a collection bound by an earlier connect stays bound.
afterFailedConnect(coll) == coll

\* { ...analysis, analyzedAt: new Date() }
withAnalyzedAt(analysis, now) == [result |-> analysis.result, analyzedAt |-> now]

\* updateOne replacing the whole document by its analysis.
updateOneReplacing(coll, id, analysis) ==
  IF id \in 1..Len(coll)
    THEN [coll EXCEPT ![id] = [url |-> NULL, filename |-> NULL, mimeType |-> NULL,
                               fileData |-> Nil, fileSize |-> 0, analysis |-> analysis]]
    ELSE coll

\* updateOne({ _id: id }, { $set: { analysis } }): the documents afterwards.
updateOne(coll, id, analysis) ==
  IF id \in 1..Len(coll) THEN [coll EXCEPT ![id].analysis = analysis] ELSE coll

\* modifiedCount counting every matched document.
matchedCount(coll, id, analysis) == IF id \in 1..Len(coll) THEN 1 ELSE 0

\* result.modifiedCount: an update that leaves the document as it was is not
\* counted.
modifiedCount(coll, id, analysis) ==
  IF id \in 1..Len(coll) /\ coll[id].analysis # analysis THEN 1 ELSE 0

\* find({}).sort({ uploadedAt: -1 }).limit(limit).toArray(): the newest
\* documents first.
recentMedia(coll, limit) ==
  LET n == IF limit < Len(coll) THEN limit ELSE Len(coll)
  IN  [k \in 1..n |-> coll[Len(coll) + 1 - k]]

\* find({ $text: { $search: searchText } }) over the analysis results.
textMatches(coll, searchText) ==
  LET Hit(d) == d.analysis # Nil /\ d.analysis.result = searchText
  IN  SelectSeq(coll, Hit)

RECURSIVE sumFileSize(_)
sumFileSize(coll) ==
  IF coll = <<>> THEN 0 ELSE Head(coll).fileSize + sumFileSize(Tail(coll))

\* The $group aggregation and the rounding of the average.
stats(coll) ==
  IF coll = <<>>
    THEN [totalDocuments |-> 0, totalSize |-> 0, averageSize |-> 0]
    ELSE [totalDocuments |-> Len(coll), totalSize |-> sumFileSize(coll),
          averageSize |-> (2 * sumFileSize(coll) + Len(coll)) \div (2 * Len(coll))]

\* The record of a call that has returned or thrown.
Called(op, arg, threw, value, touched) ==
  [call EXCEPT !.op = op, !.arg = arg, !.threw = threw, !.value = value,
               !.touched = touched, !.before = media]

\* A method that only reads: it throws at once when the collection is not
\* set, else its round trip fails or yields `value`.
ReadCall(op, arg, value) ==
  /\ \/ /\ ~mediaCollection
        /\ call' = Called(op, arg, notConnectedError, Nil, FALSE)
     \/ /\ mediaCollection
        /\ \/ call' = Called(op, arg, serverError, Nil, TRUE)
           \/ call' = Called(op, arg, NULL, value, TRUE)
  /\ UNCHANGED <<mediaCollection, media, tempDir, req, started, overlap, unlinkFails>>

\* How a connect may go: the connection and the indexes made, the connection
\* made and a createIndex rejected, or the connection itself refused.
ConnectOutcomes == {"connected", "indexesFailed", "connectionFailed"}

\* connectThrows with the error of createIndexes thrown on.
connectThrowsOnIndexes(outcome) == outcome # "connected"

\* connect throws what client.connect() throws; createIndexes catches and
\* logs what createIndex throws.
connectThrows(outcome) == outcome = "connectionFailed"

\* MongoDBService.connect, called and completed in one of the ways `outcomes`.
ConnectWith(outcomes) ==
  /\ \E outcome \in outcomes :
       LET ok == ~connectThrows(outcome)
       IN  /\ mediaCollection' = IF outcome = "connectionFailed"
                                   THEN afterFailedConnect(mediaCollection) ELSE TRUE
           /\ call' = [Called("connect", [outcome |-> outcome],
                               IF ok THEN NULL ELSE serverError, Nil, FALSE)
                         EXCEPT !.life = IF ok THEN "connected" ELSE "connectFailed",
                                !.up = ok \/ @,
                                !.indexes = IF ~ok THEN @
                                            ELSE IF outcome = "connected" THEN "created"
                                            ELSE "failed"]
  /\ UNCHANGED <<media, tempDir, req, started, overlap, unlinkFails>>

\* connect against a server that accepts every createIndex.
ConnectCall == ConnectWith(ConnectOutcomes \ {"indexesFailed"})

\* connect against a server that may reject a createIndex.
ConnectIndexingCall == ConnectWith(ConnectOutcomes)

\* MongoDBService.disconnect, called and completed.
DisconnectCall ==
  /\ mediaCollection' = FALSE
  /\ call' = [Called("disconnect", Nil, NULL, Nil, FALSE)
                EXCEPT !.life = "disconnected", !.up = FALSE]
  /\ UNCHANGED <<media, tempDir, req, started, overlap, unlinkFails>>

\* MongoDBService.saveMedia, with or without an analysis.
SaveMediaCall ==
  /\ Len(media) < MaxDocs
  /\ \E analysis \in Analyses \cup {Nil}, now \in Dates :
       LET arg == [url |-> SaveUrl, analysis |-> analysis]
           document == mediaDocument(SaveUrl, generateFilename(SaveUrl, "video/mp4"),
                                     "video/mp4", SaveBytes,
                                     IF analysis = Nil THEN Nil
                                     ELSE withAnalyzedAt(analysis, now))
       IN  \/ /\ ~mediaCollection
              /\ media' = media
              /\ call' = Called("saveMedia", arg, notConnectedError, Nil, FALSE)
           \/ /\ mediaCollection
              /\ \/ /\ media' = media
                    /\ call' = [Called("saveMedia", arg, serverError, Nil, TRUE)
                                  EXCEPT !.now = now]
                 \/ /\ media' = insertOne(media, document)
                    /\ call' = [Called("saveMedia", arg, NULL, document, TRUE)
                                  EXCEPT !.now = now]
  /\ UNCHANGED <<mediaCollection, tempDir, req, started, overlap, unlinkFails>>

\* MongoDBService.updateAnalysis.
UpdateAnalysisCall ==
  /\ \E id \in Ids, analysis \in Analyses, now \in Dates :
       LET arg == [id |-> id, analysis |-> analysis]
           stored == withAnalyzedAt(analysis, now)
       IN  \/ /\ ~mediaCollection
              /\ media' = media
              /\ call' = Called("updateAnalysis", arg, notConnectedError, Nil, FALSE)
           \/ /\ mediaCollection
              /\ \/ /\ media' = media
                    /\ call' = [Called("updateAnalysis", arg, serverError, Nil, TRUE)
                                  EXCEPT !.now = now]
                 \/ /\ media' = updateOne(media, id, stored)
                    /\ call' = [Called("updateAnalysis", arg, NULL,
                                       modifiedCount(media, id, stored) > 0, TRUE)
                                  EXCEPT !.now = now]
  /\ UNCHANGED <<mediaCollection, tempDir, req, started, overlap, unlinkFails>>

\* MongoDBService.findByUrl.
FindByUrlCall == \E url \in {U1, U3} : ReadCall("findByUrl", url, findOne(media, url))

\* MongoDBService.getRecentMedia.
GetRecentMediaCall ==
  \E limit \in {1, 10} : ReadCall("getRecentMedia", limit, recentMedia(media, limit))

\* MongoDBService.searchByAnalysis.
SearchByAnalysisCall ==
  \E searchText \in AnalysisTexts :
    ReadCall("searchByAnalysis", searchText, textMatches(media, searchText))

\* MongoDBService.getStats.
GetStatsCall == ReadCall("getStats", Nil, stats(media))

\* MediaDownloaderService.generateFilename.
GenerateFilenameCall ==
  /\ \E url \in FilenameUrls,
        mimeType \in {"image/png", "video/mp4", "application/octet-stream"} :
       \E filename \in IF UrlParses(url) THEN {generateFilename(url, mimeType)}
                        ELSE generateFilenameCatch(mimeType) :
         call' = Called("generateFilename", [url |-> url, mimeType |-> mimeType],
                        NULL, filename, FALSE)
  /\ UNCHANGED <<mediaCollection, media, tempDir, req, started, overlap, unlinkFails>>

\* MediaDownloaderService.getStrategiesForUrl.
GetStrategiesForUrlCall ==
  /\ \E url \in StrategyUrls :
       call' = Called("getStrategiesForUrl", url, NULL, getStrategiesForUrl(url), FALSE)
  /\ UNCHANGED <<mediaCollection, media, tempDir, req, started, overlap, unlinkFails>>

NextServices ==
  \/ ConnectCall
  \/ DisconnectCall
  \/ SaveMediaCall
  \/ UpdateAnalysisCall
  \/ FindByUrlCall
  \/ GetRecentMediaCall
  \/ SearchByAnalysisCall
  \/ GetStatsCall
  \/ GenerateFilenameCall
  \/ GetStrategiesForUrlCall

\* The services called directly, from the state after construction.
SpecServices == Init /\ [][NextServices]_vars

NextIndexes ==
  \/ ConnectIndexingCall
  \/ DisconnectCall
  \/ SaveMediaCall
  \/ UpdateAnalysisCall
  \/ FindByUrlCall

\* The store's life cycle and the methods that need no index, against a
\* server that may reject a createIndex.
SpecIndexes == Init /\ [][NextIndexes]_vars

\* ------------------------------------------- a scratch directory that may
\* refuse deletions
\* The server after construction, over a scratch directory in which
\* unlinkSync either works or throws (say, for lack of permission).
InitUnlink ==
  /\ mediaCollection = FALSE
  /\ media = <<>>
  /\ tempDir = {}
  /\ req = [r \in Reqs |-> NoReq]
  /\ started = 0
  /\ overlap = FALSE
  /\ call = NoCall
  /\ unlinkFails \in BOOLEAN

\* Video requests for a URL with a basename and for one without.
UnlinkArgs == {a \in UrlArgs : a.tool = "video" /\ a.url \in {U1, U3}}

NextUnlink ==
  \/ \E args \in UnlinkArgs : Invoke(1, args)
  \/ FindByUrlDone(1)
  \/ Strategy(1)
  \/ UploadDone(1)
  \/ ProcessDone(1)
  \/ SaveDone(1)
  \/ Connect
  \/ Disconnect

\* Video URL requests one at a time over such a scratch directory.
SpecUnlink == InitUnlink /\ [][NextUnlink]_vars

\* ------------------------------------------------- two requests in turn
\* A record a run before this one has stored for U1, with its analysis.
cachedDocument ==
  mediaDocument(U1, generateFilename(U1, "video/mp4"), "video/mp4",
                [src |-> U1, by |-> 0, length |-> 1], [result |-> "T1"])

\* The server after construction, over a store that is empty or holds that
\* record.
InitInTurn ==
  /\ mediaCollection = FALSE
  /\ media \in {<<>>, <<cachedDocument>>}
  /\ tempDir = {}
  /\ req = [r \in Reqs |-> NoReq]
  /\ started = 0
  /\ overlap = TRUE
  /\ call = NoCall
  /\ unlinkFails = FALSE

\* A first request, and once it has returned a second one; both video
\* requests for U1 or U2 with caching enabled, each with or without a prompt
\* and a model name of its own.
NextInTurn ==
  \/ \E args \in OverlapArgs : req[1].pc = "idle" /\ Invoke(1, args)
  \/ \E args \in OverlapArgs : req[1].pc = "done" /\ req[2].pc = "idle" /\ Invoke(2, args)
  \/ \E r \in Reqs : FindByUrlDone(r)
  \/ \E r \in Reqs : Strategy(r)
  \/ \E r \in Reqs : UploadDone(r)
  \/ \E r \in Reqs : ProcessDone(r)
  \/ \E r \in Reqs : SaveDone(r)
  \/ Connect
  \/ Disconnect

\* Two requests, the second after the first has returned.
SpecInTurn == InitInTurn /\ [][NextInTurn]_vars

\* ------------------------------------------------- the passes observed
\* The answers a probe may get, with the way it failed: an error status, a
\* timeout, or no connection.
ProbeFailures == {"401", "403", "429", "500", "ECONNABORTED", "ENOTFOUND"}
ProbeResponses ==
  [ok : {TRUE}, ct : {NULL, "video/mp4", "image/png"}, fail : {NULL}]
    \cup [ok : {FALSE}, ct : {NULL}, fail : ProbeFailures]

\* Video requests with a URL, their results to be saved.
ProbeArgs == {a \in UrlArgs : a.tool = "video" /\ a.saveToDb}

\* A pass of the loop, with the answers to its probe and its GET and the
\* header sets used so far in this download kept in `call`.
ObservedPass(r, probes) ==
  /\ req[r].pc = "download"
  /\ \E head \in probes, resp \in GetResponses :
       /\ downloadPass(r, head, resp)
       /\ call' = [call EXCEPT
            !.op = "downloadPass",
            !.arg = [url |-> req[r].url, head |-> head, ct |-> resp.ct],
            !.value = LET headers == headersOf(getStrategiesForUrl(req[r].url), req[r].v.i)
                      IN  IF req[r].v.i = 1 THEN <<headers>> ELSE Append(call.value, headers)]

ObservedStrategy(r) == ObservedPass(r, ProbeResponses)

NextProbe ==
  \/ \E args \in ProbeArgs : Invoke(1, args)
  \/ FindByUrlDone(1)
  \/ ObservedStrategy(1)
  \/ UploadDone(1)
  \/ ProcessDone(1)
  \/ SaveDone(1)
  \/ Connect
  \/ Disconnect

\* Video URL requests one at a time, the passes of the download observed.
SpecProbe == Init /\ [][NextProbe]_vars

\* For the passes alone a probe that failed and one that was answered
\* without a content type stand for all.
RetryProbes == {head \in ProbeResponses : head.ct = NULL /\ head.fail \in {NULL, "403"}}
RetryStrategy(r) == ObservedPass(r, RetryProbes)

\* Video requests with a URL whose results are not saved.
RetryArgs == {a \in UrlArgs : a.tool = "video" /\ ~a.saveToDb}

NextRetry ==
  \/ \E args \in RetryArgs : Invoke(1, args)
  \/ FindByUrlDone(1)
  \/ RetryStrategy(1)
  \/ UploadDone(1)
  \/ ProcessDone(1)
  \/ Connect
  \/ Disconnect

\* Video URL requests one at a time where every HTTP call returns or fails,
\* so that a pass that has begun ends.
SpecRetry == Init /\ [][NextRetry]_vars /\ WF_vars(RetryStrategy(1))

\* ------------------------------------------------- local files on disk
\* The caller's files, as they are on disk before any request.
LocalDisk == {[name |-> p, data |-> Nil] : p \in {q \in Paths : LocalExists(q)}}

\* The server after construction, the disk holding the caller's files.
InitLocal ==
  /\ mediaCollection = FALSE
  /\ media = <<>>
  /\ tempDir = LocalDisk
  /\ req = [r \in Reqs |-> NoReq]
  /\ started = 0
  /\ overlap = FALSE
  /\ call = NoCall
  /\ unlinkFails = FALSE

\* Requests that give a local path and no URL.
LocalArgs == {a \in Args : a.url = NULL /\ a.filepath # NULL}

NextLocal ==
  \/ \E args \in LocalArgs : Invoke(1, args)
  \/ UploadDone(1)
  \/ ProcessDone(1)
  \/ SaveDone(1)
  \/ Connect
  \/ Disconnect

\* Local-path requests of the three tools, one at a time.
SpecLocal == InitLocal /\ [][NextLocal]_vars

\* ------------------------------------------------ what the tools insert
\* Requests of the three tools for a URL or for a local file that exists.
SaveArgs == {a \in Args : a.url = U1 \/ (a.filepath # NULL /\ LocalExists(a.filepath))}

NextSave ==
  \/ \E args \in SaveArgs : Invoke(1, args)
  \/ FindByUrlDone(1)
  \/ Strategy(1)
  \/ UploadDone(1)
  \/ ProcessDone(1)
  \/ SaveDone(1)
  \/ Connect
  \/ Disconnect

\* Requests of the three tools, one at a time, for a URL or a local file.
SpecSave == Init /\ [][NextSave]_vars

\* ------------------------------------------- a URL and a filepath given
\* Requests that carry both a URL and a filepath (the schema admits them).
BothArgs ==
  {[tool |-> t, url |-> U1, filepath |-> p, saveToDb |-> b,
    prompt |-> NULL, modelname |-> NULL] : t \in Tools, p \in Paths, b \in BOOLEAN}

NextBoth ==
  \/ \E args \in BothArgs : Invoke(1, args)
  \/ FindByUrlDone(1)
  \/ Strategy(1)
  \/ UploadDone(1)
  \/ ProcessDone(1)
  \/ SaveDone(1)
  \/ Connect
  \/ Disconnect

\* Requests of the three tools, one at a time, each with a URL and a filepath.
SpecBoth == Init /\ [][NextBoth]_vars

\* ------------------------------------------------------------------ claims
\* The invocations that have been made.
Made == {r \in Reqs : req[r].pc # "idle"}

\* C1: a URL request with caching enabled whose lookup is answered while the
\* store holds a document of the URL with an analysis ends at once: no probe,
\* no GET, no upload, no analysis, no save, no scratch file, and its result is
\* the stored text without an error flag.
CacheIdempotence ==
  \A r \in Made :
    (/\ req[r].url # NULL
     /\ req[r].saveToDb
     /\ req[r].h.lookup = "answered"
     /\ req[r].h.held # {})
    => /\ req[r].pc = "done"
       /\ req[r].h.nHead = 0 /\ req[r].h.nGet = 0
       /\ req[r].h.nUpload = 0 /\ req[r].h.nProcess = 0
       /\ req[r].h.nSave = 0 /\ req[r].h.nInsert = 0
       /\ req[r].h.wrote = NULL
       /\ ~req[r].result.isError
       /\ req[r].result.text \in req[r].h.held

\* An audio request with caching enabled was answered from the store.
CacheHitReached ==
  \E r \in Made :
    /\ req[r].tool = "audio" /\ req[r].url # NULL /\ req[r].saveToDb
    /\ req[r].h.lookup = "answered" /\ req[r].h.held # {}
    /\ req[r].pc = "done"

\* C2: when the callback of a URL request has returned, whichever way it
\* ended, the scratch file its download wrote is gone.
CleanupOnEveryExit ==
  \A r \in Made : req[r].pc = "done" => ~req[r].h.leftBehind

\* A request that wrote a scratch file ended with an error result.
FailedAfterDownloadReached ==
  \E r \in Made :
    /\ req[r].pc = "done" /\ req[r].h.wrote # NULL /\ req[r].result.isError
    /\ req[r].h.nCleanup = 1

\* The invocations that requested at least two GETs, every one before the
\* last answered 401, 403 or 429, and the last answered 200 within the size
\* ceiling.
FellBack ==
  {r \in Made : /\ req[r].h.nGet >= 2
                /\ req[r].h.nSoft = req[r].h.nGet - 1
                /\ req[r].h.lastGet.status = 200
                /\ req[r].h.lastGet.size <= maxFileSize}

\* What C3 promises of such an invocation: the download succeeded with the
\* bytes of the last GET, fetched under the header set of that position of
\* the list, and the loop has ended.
UsedLastStrategy(r) ==
  /\ req[r].pc # "download"
  /\ req[r].h.wrote # NULL
  /\ req[r].h.bytes = [src |-> req[r].url, by |-> r, length |-> req[r].h.lastGet.size]
  /\ req[r].h.via = getStrategiesForUrl(req[r].url)[req[r].h.nGet]
  /\ req[r].h.nHead = req[r].h.nGet

\* C3 as stated: if the GET under strategy k fails with 401, 403 or 429 and
\* the GET under strategy k+1 returns 200 with a supported content type, the
\* download succeeds with the payload obtained under strategy k+1's headers
\* and nothing is requested for a later strategy.
StrategyFallbackOnGetType ==
  \A r \in FellBack : req[r].h.getTypeOk => UsedLastStrategy(r)

\* C3, amended: the same, when the content type the download resolves (the
\* probe's if the probe of strategy k+1 supplied one, else the GET's) is a
\* supported one.
StrategyFallback ==
  \A r \in FellBack : isSupported(req[r].h.resolved) => UsedLastStrategy(r)

\* A download succeeded under the second header set after a 403.
FellBackReached ==
  \E r \in FellBack :
    /\ req[r].h.nGet = 2 /\ isSupported(req[r].h.resolved)
    /\ req[r].h.via = "firefox" /\ req[r].h.wrote # NULL

\* The GET the invocation made last failed other than by 401, 403 or 429:
\* an error status, no response, a body over the ceiling, or a content type
\* that is not supported.
HardFailed(r) ==
  /\ req[r].h.lastGet # Nil
  /\ req[r].h.lastGet.status \notin SoftStatuses
  /\ \/ req[r].h.lastGet.status # 200
     \/ req[r].h.lastGet.size > maxFileSize
     \/ req[r].h.resolved # NULL /\ ~isSupported(req[r].h.resolved)

\* C4: a GET that fails other than by 401, 403 or 429 ends the download at
\* once: the callback has returned an error, every GET before it was a soft
\* failure, no strategy after it was tried and no scratch file was written.
HardFailureShortCircuit ==
  \A r \in Made :
    HardFailed(r)
    => /\ req[r].pc = "done"
       /\ req[r].result.isError
       /\ req[r].h.nGet = req[r].h.nSoft + 1
       /\ req[r].h.nHead = req[r].h.nGet
       /\ req[r].h.wrote = NULL
       /\ req[r].h.nUpload = 0

\* A request for a URL with three strategies ended on a 500 at the first.
HardFailureReached ==
  \E r \in Made :
    /\ req[r].url = U1 /\ req[r].h.nGet = 1 /\ req[r].h.lastGet # Nil
    /\ req[r].h.lastGet.status = 500 /\ req[r].pc = "done"

\* C5: when the GET under every strategy of the list has failed with 401,
\* 403 or 429, the download has failed after exactly one GET per strategy
\* and the error reported is that of the last GET's status.
Exhaustion ==
  \A r \in Made :
    (req[r].url # NULL /\ req[r].h.nSoft = Len(getStrategiesForUrl(req[r].url)))
    => /\ req[r].pc = "done"
       /\ req[r].h.nGet = Len(getStrategiesForUrl(req[r].url))
       /\ req[r].h.wrote = NULL
       /\ req[r].result =
            errorResult(req[r].tool,
                        "Download failed with status " \o ToString(req[r].h.lastGet.status)
                          \o ": " \o StatusText(req[r].h.lastGet.status))

\* All three strategies of a URL were refused, the last with a 429.
ExhaustionReached ==
  \E r \in Made :
    /\ req[r].url = U1 /\ req[r].h.nSoft = 3 /\ req[r].h.lastGet.status = 429
    /\ req[r].pc = "done"

\* C6: when saveMedia threw after a successful analysis, the callback still
\* returned the analysis text without an error flag, and the scratch file is
\* gone; for every tool, URL and local path alike.
PersistenceFailureIsolation ==
  \A r \in Made :
    (req[r].pc = "done" /\ req[r].h.nSave = 1 /\ req[r].h.nInsert = 0)
    => /\ req[r].result = successResult(req[r].h.analysis)
       /\ ~req[r].h.leftBehind

\* A video request for a URL lost its save and still returned the analysis.
SaveFailedReached ==
  \E r \in Made :
    /\ req[r].tool = "video" /\ req[r].h.wrote # NULL
    /\ req[r].pc = "done" /\ req[r].h.nSave = 1 /\ req[r].h.nInsert = 0

\* The invocations that hold a scratch file downloadMedia returned to them
\* and have not returned yet.
Holding == {r \in Made : req[r].v.tempFilePath # NULL}

\* C7: any two downloads in flight at the same time, of one URL or of two,
\* wrote distinct scratch paths.
DistinctScratchPaths ==
  \A r1, r2 \in Holding : r1 # r2 => req[r1].v.tempFilePath # req[r2].v.tempFilePath

\* C8: while a URL request hands its scratch file to the analysis backend
\* (uploadFile is awaited), the file exists and holds the bytes the request
\* downloaded: no other request has deleted or overwritten it.
ExclusiveTempFileOwnership ==
  \A r \in Holding :
    req[r].pc = "uploadFile"
    => [name |-> req[r].v.tempFilePath, data |-> req[r].v.fileData] \in tempDir

\* The top-level class of a MIME type, read without regard to case.
TopLevelClass(mimeType) ==
  CASE mimeType \in {"image/png", "IMAGE/PNG"} -> "image"
    [] mimeType = "video/mp4" -> "video"
    [] mimeType = "audio/mpeg" -> "audio"
    [] mimeType = "text/html; charset=utf-8" -> "text"
    [] mimeType = "application/octet-stream" -> "application"

\* The classes each operation is for.
OperationClasses(tool) ==
  CASE tool = "image" -> {"image"}
    [] tool = "video" -> {"video"}
    [] tool = "audio" -> {"audio", "video"}

\* The MIME type the last GET of the invocation resolved: the probe's, else
\* the GET's, else the default.
ResolvedMime(r) ==
  IF req[r].h.resolved = NULL THEN "application/octet-stream" ELSE req[r].h.resolved

\* The invocations whose last GET returned a body within the ceiling with a
\* resolved MIME type that is not of the operation's class.
Mismatched ==
  {r \in Made : /\ req[r].h.lastGet # Nil
                /\ req[r].h.lastGet.status = 200
                /\ req[r].h.lastGet.size <= maxFileSize
                /\ TopLevelClass(ResolvedMime(r)) \notin OperationClasses(req[r].tool)}

\* The error texts that name a MIME type.
NamesMime(text, tool, mimeType) ==
  \E noun \in {"an image", "a video", "an audio"} :
    text \in {"Error processing " \o tool \o ": URL does not point to " \o noun
                \o " file. MIME type: " \o mimeType,
              "Error processing " \o tool \o ": Unsupported media type: " \o mimeType}

\* C9: a URL download whose resolved MIME type is not of the operation's
\* class ends in an error result that names the type; nothing was uploaded,
\* analysed or inserted, and no scratch file of the request remains.
MimeClassMismatch ==
  \A r \in Mismatched :
    /\ req[r].pc = "done"
    /\ req[r].result.isError
    /\ NamesMime(req[r].result.text, req[r].tool, ResolvedMime(r))
    /\ req[r].h.nUpload = 0 /\ req[r].h.nProcess = 0
    /\ req[r].h.nSave = 0 /\ req[r].h.nInsert = 0
    /\ ~req[r].h.leftBehind
    /\ ~existsSync(tempDir, pathJoin(tempDirPath,
                                     generateFilename(req[r].url, ResolvedMime(r))))

\* An image request downloaded a video: the file was written and removed.
MismatchReached ==
  \E r \in Mismatched :
    /\ req[r].tool = "image" /\ req[r].h.resolved = "video/mp4"
    /\ req[r].h.wrote # NULL /\ req[r].h.nCleanup = 1 /\ req[r].pc = "done"

\* C10: a store failure at the cache lookup (findByUrl throwing, or the
\* store not connected) is contained: the request that met it does not end
\* in an error result on that account.
StoreFailureContained ==
  \A r \in Made :
    (req[r].pc = "done" /\ req[r].h.lookup = "failed") => ~req[r].result.isError

\* C11: a request that obtained a scratch file calls cleanupTempFile on it
\* exactly once, whichever way it ends, and not before it has returned from
\* its last use of the file (upload, analysis, save).
CleanupExactlyOnce ==
  \A r \in Made :
    req[r].h.wrote # NULL
    => /\ req[r].pc = "done" => req[r].h.nCleanup = 1
       /\ req[r].pc \in {"uploadFile", "processFile", "saveMedia"}
            => /\ req[r].h.nCleanup = 0
               /\ req[r].v.tempFilePath = req[r].h.wrote

\* A request whose upload threw has cleaned its scratch file once.
CleanedOnceReached ==
  \E r \in Made :
    /\ req[r].h.wrote # NULL /\ req[r].h.nUpload = 1 /\ req[r].h.nProcess = 0
    /\ req[r].pc = "done" /\ req[r].result.isError /\ req[r].h.nCleanup = 1

\* C12: a request with saveToDb = false, of any tool and either input mode,
\* inserts nothing: the store gets no record from it.
NoInsertWithoutSaveToDb ==
  \A r \in Made : ~req[r].saveToDb => req[r].h.nInsert = 0

\* C13: a URL request with saveToDb = false, of any tool, performs no
\* findByUrl lookup.
NoLookupWithoutSaveToDb ==
  \A r \in Made : (req[r].url # NULL /\ ~req[r].saveToDb) => req[r].h.lookup = "none"

\* C14: in every state of the store each source key has at most one record
\* that carries an analysis.
AtMostOneAnalysisPerKey ==
  \A j, k \in 1..Len(media) :
    (j # k /\ media[j].url = media[k].url)
    => (media[j].analysis = Nil \/ media[k].analysis = Nil)

\* C15: saveMedia does not fail, and drops nothing, because the store
\* already holds a record of the same url: every request whose insert was
\* acknowledged has a record of its own in the store, with its bytes and
\* its analysis, so two overlapping cache-miss requests for one URL leave
\* two records of that URL.
DuplicateInsertAccepted ==
  \A r \in Made :
    (req[r].url # NULL /\ req[r].h.nInsert = 1)
    => \E k \in 1..Len(media) :
         /\ media[k].url = req[r].url
         /\ media[k].fileData = req[r].h.bytes
         /\ media[k].analysis # Nil
         /\ media[k].analysis.result = req[r].h.analysis

\* Two requests for one URL both missed the cache, both downloaded, both ran
\* the analysis and both inserted: the store holds two records of the URL.
BothInsertedReached ==
  /\ \A r \in Reqs :
       /\ req[r].pc = "done" /\ req[r].url = U1
       /\ req[r].h.lookup = "answered" /\ req[r].h.held = {}
       /\ req[r].h.nGet >= 1 /\ req[r].h.nProcess = 1 /\ req[r].h.nInsert = 1
  /\ Len(media) = 2 /\ media[1].url = U1 /\ media[2].url = U1

\* The first record the store holds for `url` carries no analysis.
IncompleteFirst(url) ==
  \E k \in 1..Len(media) :
    /\ media[k].url = url /\ media[k].analysis = Nil
    /\ \A j \in 1..(k - 1) : media[j].url # url

\* C16: a request whose lookup found a record without analysis went on to
\* download, and what it returns is an error or the text of its own
\* analysis, never anything of the record.
IncompleteRecordNotAHit ==
  \A r \in Made :
    (req[r].url # NULL /\ req[r].h.lookup = "answered" /\ IncompleteFirst(req[r].url))
    => /\ req[r].pc = "download" \/ req[r].h.nGet >= 1
       /\ (req[r].pc = "done" /\ ~req[r].result.isError)
            => /\ req[r].h.nProcess = 1
               /\ req[r].result = successResult(req[r].h.analysis)

\* A request found the record without analysis of its URL, downloaded,
\* analysed and returned its own text.
IncompleteRecordReached ==
  \E r \in Made :
    /\ req[r].url = U1 /\ req[r].h.lookup = "answered" /\ IncompleteFirst(U1)
    /\ req[r].pc = "done" /\ ~req[r].result.isError
    /\ req[r].h.nGet >= 1 /\ req[r].h.nProcess = 1

\* C17: when processFile reports an error result, the callback returns
\* exactly that text with isError true; the backend was called once, nothing
\* was saved, and the scratch file is gone.
AnalysisFailureVerbatim ==
  \A r \in Made :
    req[r].h.reported # NULL
    => /\ req[r].pc = "done"
       /\ req[r].result = [text |-> req[r].h.reported, isError |-> TRUE]
       /\ req[r].h.nUpload = 1 /\ req[r].h.nProcess = 1
       /\ req[r].h.nSave = 0 /\ req[r].h.nInsert = 0
       /\ ~req[r].h.leftBehind

\* The analysis of a downloaded file was reported as failed.
AnalysisFailureReached ==
  \E r \in Made :
    /\ req[r].h.reported = BackendErrorText /\ req[r].h.wrote # NULL
    /\ req[r].h.nCleanup = 1 /\ req[r].pc = "done"

\* The request ended on a validation or fetch failure: it returned without
\* reaching the upload, and not because the cache answered or the store
\* failed at the lookup.
EndedOnValidationOrFetch(r) ==
  /\ req[r].pc = "done" /\ req[r].h.nUpload = 0
  /\ \/ req[r].h.lookup = "none"
     \/ req[r].h.lookup = "answered" /\ req[r].h.nGet >= 1

\* C18: a callback that has ended has resolved with a result of a text and
\* an isError flag, whatever failed on the way, and the flag is set when a
\* validation or fetch failure ended the request.
NothingThrownPastBoundary ==
  \A r \in Made :
    /\ req[r].pc \in {"findByUrl", "download", "uploadFile", "processFile", "saveMedia", "done"}
    /\ req[r].pc = "done"
         => /\ req[r].result # Nil
            /\ DOMAIN req[r].result = {"text", "isError"}
            /\ req[r].result.isError \in BOOLEAN
    /\ EndedOnValidationOrFetch(r) => req[r].result # Nil /\ req[r].result.isError

\* A local-path request for a file that does not exist ended in an error
\* result.
ValidationFailureReached ==
  \E r \in Made :
    /\ req[r].argpath = "/data/gone.png" /\ EndedOnValidationOrFetch(r)
    /\ req[r].result.isError

\* C19: a request with neither filepath nor url ends at once in an error
\* result saying that one of them must be provided; no lookup, probe, GET,
\* upload, analysis or save is made for it and no file is written.
MissingInputRejected ==
  \A r \in Made :
    (req[r].url = NULL /\ req[r].argpath = NULL)
    => /\ req[r].pc = "done"
       /\ req[r].result =
            [text |-> "Error processing " \o req[r].tool
                        \o ": Either filepath or url must be provided",
             isError |-> TRUE]
       /\ req[r].h.lookup = "none"
       /\ req[r].h.nHead = 0 /\ req[r].h.nGet = 0 /\ req[r].h.wrote = NULL
       /\ req[r].h.nUpload = 0 /\ req[r].h.nProcess = 0
       /\ req[r].h.nSave = 0 /\ req[r].h.nInsert = 0

\* An audio request with neither argument has been answered.
MissingInputReached ==
  \E r \in Made :
    /\ req[r].tool = "audio" /\ req[r].url = NULL /\ req[r].argpath = NULL
    /\ req[r].pc = "done" /\ req[r].result.isError

\* C20: no download result holds more bytes than maxFileSize; a GET whose
\* body exceeds it is aborted by axios during the transfer, so the request
\* ends at once in an error that names the limit, with no scratch file
\* written and no later strategy tried.
SizeCeiling ==
  \A r \in Made :
    /\ req[r].h.wrote # NULL => req[r].h.bytes.length <= maxFileSize
    /\ (/\ req[r].h.lastGet # Nil
        /\ req[r].h.lastGet.status = 200
        /\ req[r].h.lastGet.size > maxFileSize)
       => /\ req[r].pc = "done"
          /\ req[r].h.wrote = NULL
          /\ req[r].h.nGet = req[r].h.nSoft + 1
          /\ req[r].result =
               errorResult(req[r].tool,
                           "Network error: maxContentLength size of "
                             \o ToString(maxFileSize) \o " exceeded")

\* A body over the ceiling was served to the second strategy of a URL.
OversizeReached ==
  \E r \in Made :
    /\ req[r].url = U1 /\ req[r].h.nGet = 2 /\ req[r].h.lastGet # Nil
    /\ req[r].h.lastGet.status = 200 /\ req[r].h.lastGet.size > maxFileSize
    /\ req[r].pc = "done" /\ req[r].result.isError

\* C21: every download that succeeded (wrote its scratch file and returned a
\* result) resolved a MIME type of the allow-list, whatever content types the
\* probe and the GET carried or left out.
SuccessImpliesSupportedType ==
  \A r \in Made :
    req[r].h.wrote # NULL => isSupported(ResolvedMime(r))

\* C22: an audio_recognition URL request whose GET returned a body within the
\* ceiling is handed to the analysis backend if the resolved MIME type is of
\* class audio or video, and ends in an error naming the type otherwise.
AudioClassAcceptance ==
  \A r \in Made :
    (/\ req[r].tool = "audio"
     /\ req[r].h.lastGet # Nil
     /\ req[r].h.lastGet.status = 200
     /\ req[r].h.lastGet.size <= maxFileSize
     /\ req[r].pc = "done")
    => IF TopLevelClass(ResolvedMime(r)) \in {"audio", "video"}
         THEN req[r].h.nUpload = 1
         ELSE /\ req[r].result.isError
              /\ NamesMime(req[r].result.text, "audio", ResolvedMime(r))
              /\ req[r].h.nUpload = 0

\* The store methods that need the connection.
StoreOps ==
  {"saveMedia", "updateAnalysis", "findByUrl", "getRecentMedia", "searchByAnalysis",
   "getStats"}

\* C23 as stated: a store method fails with the connectivity error, without
\* reaching the collection or changing a record, exactly when the last
\* completed connect or disconnect was not a successful connect.
UsableAfterLastConnect ==
  call.op \in StoreOps =>
    /\ (call.threw = notConnectedError) <=> (call.life # "connected")
    /\ call.threw = notConnectedError => ~call.touched /\ media = call.before

\* C23: a store method fails with the connectivity error, without reaching
\* the collection or changing a record, exactly when no connect has succeeded
\* since construction or since the last disconnect; a connect that fails
\* leaves a store that was usable usable.
UsableWhileBound ==
  call.op \in StoreOps =>
    /\ (call.threw = notConnectedError) <=> ~call.up
    /\ call.threw = notConnectedError => ~call.touched /\ media = call.before

\* updateAnalysis was called after a disconnect on a store that holds a
\* record, and failed.
CalledAfterDisconnectReached ==
  /\ call.op = "updateAnalysis" /\ call.life = "disconnected"
  /\ call.threw = notConnectedError /\ Len(media) > 0

\* C24: updateAnalysis(id, a) that returns has, for the id of a record,
\* replaced that record's analysis by a with the time of the call, left every
\* other field and record alone and returned true; for any other id it has
\* left the records alone and returned false.
UpdateAnalysisEffect ==
  (call.op = "updateAnalysis" /\ call.threw = NULL) =>
    IF call.arg.id \in 1..Len(call.before)
      THEN /\ call.value = TRUE
           /\ media = [call.before EXCEPT ![call.arg.id].analysis =
                         [result |-> call.arg.analysis.result, analyzedAt |-> call.now]]
      ELSE /\ call.value = FALSE
           /\ media = call.before

\* C29: no step removes a record or changes the url, the filename, the MIME
\* type, the bytes or the size of a record; only analyses change and records
\* are added.
RecordsKept ==
  [][/\ Len(media') >= Len(media)
     /\ \A k \in 1..Len(media) :
          /\ media'[k].url = media[k].url
          /\ media'[k].filename = media[k].filename
          /\ media'[k].mimeType = media[k].mimeType
          /\ media'[k].fileData = media[k].fileData
          /\ media'[k].fileSize = media[k].fileSize]_vars

\* updateAnalysis has replaced the analysis of one of two records.
AnalysisReplacedReached ==
  /\ call.op = "updateAnalysis" /\ call.threw = NULL /\ call.value = TRUE
  /\ Len(media) = 2 /\ media # call.before

\* path.extname(basename) is not empty.
CarriesExtension(basename) == basename \in {"clip.mp4", "pic.png", "song.mp3", "gone.png"}

\* The name the hash branch gives.
HashedName(url, mimeType) == "media_" \o Md5Hex8(url) \o "." \o Extension(mimeType)

ScratchPaths ==
  {pathJoin(tempDirPath, generateFilename(url, "video/mp4")) : url \in Urls}
    \cup {pathJoin(tempDirPath, "never.bin")}

\* C25: cleanupTempFile raises nothing and returns the directory it leaves:
\* without the file when it was there and could be deleted, as it was
\* otherwise, other files untouched, and a second call changes nothing more;
\* a request whose scratch file could not be deleted still returns the result
\* it had computed.
CleanupNeverRaises ==
  /\ \A p \in ScratchPaths :
       LET once == cleanupTempFile(tempDir, p)
       IN  /\ cleanupTempFile(once, p) = once
           /\ ~existsSync(tempDir, p) => once = tempDir
           /\ (existsSync(tempDir, p) /\ ~unlinkFails) => ~existsSync(once, p)
           /\ {f \in once : f.name # p} = {f \in tempDir : f.name # p}
  /\ \A r \in Made :
       (req[r].pc = "done" /\ req[r].h.wrote # NULL) =>
         /\ req[r].result # Nil
         /\ req[r].h.nCleanup = 1
         /\ req[r].h.analysis # NULL => req[r].result = successResult(req[r].h.analysis)
         /\ req[r].h.reported # NULL
              => req[r].result = analysisErrorResult(req[r].h.reported)
         /\ (req[r].h.analysis = NULL /\ req[r].h.reported = NULL) => req[r].result.isError
         /\ req[r].h.leftBehind <=> unlinkFails

\* A request returned its analysis although its scratch file could not be
\* deleted.
UndeletedFileReached ==
  \E r \in Made :
    /\ req[r].pc = "done" /\ unlinkFails
    /\ req[r].h.nCleanup = 1 /\ req[r].h.leftBehind
    /\ req[r].result = successResult("T1")

\* The requests for a URL of which the store held a record with an analysis
\* when it answered their lookup.
Hits == {r \in Made : req[r].h.lookup = "answered" /\ req[r].h.held # {}}

\* C27: two requests for the same URL that found it cached return the same
\* text without an error flag, whatever prompt and model name each carries,
\* and neither probes, downloads, uploads or analyses.
CacheHitIgnoresPrompt ==
  \A r1 \in Hits, r2 \in Hits :
    req[r1].url = req[r2].url =>
      /\ req[r1].pc = "done" /\ req[r2].pc = "done"
      /\ ~req[r1].result.isError
      /\ req[r1].result = req[r2].result
      /\ req[r1].h.nHead = 0 /\ req[r1].h.nGet = 0
      /\ req[r1].h.nUpload = 0 /\ req[r1].h.nProcess = 0

\* Two requests for U1 that differ in prompt and model name were both served
\* the stored text.
DifferentPromptsReached ==
  /\ Hits = {1, 2} /\ req[1].url = U1 /\ req[2].url = U1
  /\ req[1].prompt = "P1" /\ req[2].prompt = NULL
  /\ req[1].modelname = NULL /\ req[2].modelname = "M1"
  /\ req[2].pc = "done" /\ req[2].result = successResult("T1")

\* The pairs of a request that returned its analysis after inserting the
\* first record of its URL, and a request for that URL made after it.
RoundTrips ==
  {p \in Reqs \X Reqs :
     /\ p[1] = 1 /\ p[2] = 2
     /\ req[1].pc = "done" /\ req[1].h.nInsert = 1
     /\ req[1].result = successResult(req[1].h.analysis)
     /\ findOne(media, req[1].url) # Nil
     /\ findOne(media, req[1].url).fileData.by = 1
     /\ req[2].pc # "idle" /\ req[2].url = req[1].url /\ req[2].saveToDb}

StepOrdering ==
  \A r \in Made :
    /\ (req[r].url # NULL /\ req[r].saveToDb /\ req[r].h.nHead + req[r].h.nGet > 0)
         => req[r].h.lookup = "answered" /\ req[r].h.held = {}
    /\ req[r].h.nHead = req[r].h.nGet
    /\ req[r].h.wrote # NULL => req[r].h.nGet > 0
    /\ req[r].h.nUpload > 0 =>
         IF req[r].url # NULL
           THEN /\ req[r].h.wrote # NULL
                /\ TopLevelClass(ResolvedMime(r)) \in OperationClasses(req[r].tool)
           ELSE /\ req[r].argpath # NULL
                /\ ExtName(req[r].argpath) \in LocalExtensions(req[r].tool)
    /\ req[r].h.nProcess > 0 => req[r].h.nUpload = 1
    /\ req[r].h.nSave > 0 => req[r].h.nProcess = 1 /\ req[r].h.analysis # NULL
    /\ req[r].h.nInsert > 0 => req[r].h.nSave = 1
    /\ req[r].h.nCleanup > 0 => req[r].pc = "done"
    /\ (req[r].pc \notin {"done", "download", "findByUrl"} /\ req[r].h.wrote # NULL)
         => existsSync(tempDir, req[r].h.wrote)
    /\ req[r].h.nUpload <= 1 /\ req[r].h.nProcess <= 1 /\ req[r].h.nSave <= 1
    /\ req[r].h.nInsert <= 1 /\ req[r].h.nCleanup <= 1

\* A request went through every step: lookup, two GETs, upload, analysis,
\* insert and release.
EveryStepReached ==
  \E r \in Made :
    /\ req[r].pc = "done" /\ req[r].h.lookup = "answered"
    /\ req[r].h.nGet = 2 /\ req[r].h.nUpload = 1 /\ req[r].h.nProcess = 1
    /\ req[r].h.nInsert = 1 /\ req[r].h.nCleanup = 1

\* The request whose last pass `call` holds.
Observed ==
  {r \in Made : /\ call.op = "downloadPass"
                /\ req[r].url = call.arg.url
                /\ req[r].h.nGet = Len(call.value)}

\* C31: every probe is followed by the GET of its pass; after a probe that
\* failed, in whatever way, the pass succeeds exactly when the GET returned
\* 200 with a body within the ceiling and a content type that is supported
\* or absent, and goes on to the next strategy exactly when the GET was
\* answered 401, 403 or 429 and a strategy is left; the resolved content
\* type is the probe's when the probe supplied one and the GET's otherwise.
ProbeFailureNotFatal ==
  \A r \in Observed :
    LET head == call.arg.head
        get == req[r].h.lastGet
        last == Len(call.value) = Len(getStrategiesForUrl(req[r].url))
    IN  /\ req[r].h.nHead = req[r].h.nGet
        /\ get.status = 200 =>
             req[r].h.resolved = IF head.ok /\ head.ct # NULL THEN head.ct ELSE call.arg.ct
        /\ ~head.ok =>
             /\ req[r].h.wrote # NULL
                  <=> /\ get.status = 200 /\ get.size <= maxFileSize
                      /\ (call.arg.ct = NULL \/ isSupported(call.arg.ct))
             /\ req[r].pc = "download" <=> (get.status \in SoftStatuses /\ ~last)

\* A probe that timed out was followed by a GET that brought a video.
ProbeTimeoutReached ==
  \E r \in Observed :
    /\ call.arg.head.fail = "ECONNABORTED" /\ call.arg.ct = "video/mp4"
    /\ req[r].h.wrote # NULL /\ req[r].h.resolved = "video/mp4"
    /\ Len(call.value) = 2

\* Requests whose download has ended: URL requests past the lookup and the
\* download that were not answered from the cache.
Downloaded ==
  {r \in Made : /\ req[r].url # NULL
                /\ req[r].pc \notin {"findByUrl", "download"}
                /\ req[r].h.lookup # "failed"
                /\ r \notin Hits}

\* The passes of a download are the first entries of the URL's strategy list,
\* in its order, each once, and a download that ended made at least one.
PassesInListOrder ==
  /\ \A url \in Urls :
       LET strategies == getStrategiesForUrl(url)
       IN  /\ Len(strategies) \in 1..3
           /\ \A j, k \in 1..Len(strategies) : strategies[j] = strategies[k] => j = k
  /\ \A r \in Observed :
       LET strategies == getStrategiesForUrl(req[r].url)
       IN  /\ Len(call.value) <= Len(strategies)
           /\ \A k \in 1..Len(call.value) : call.value[k] = strategies[k]
           /\ req[r].pc = "download" => Len(call.value) < Len(strategies)
  /\ \A r \in Made :
       /\ req[r].url # NULL => req[r].h.nGet <= Len(getStrategiesForUrl(req[r].url))
       /\ r \in Downloaded => req[r].h.nGet >= 1

\* C32: every URL's strategy list has one to three entries, none twice; a
\* download issues at most one GET per strategy, in list order, at least one
\* in all, and, every HTTP call returning or failing, it ends.
BoundedRetry ==
  /\ []PassesInListOrder
  /\ (req[1].pc = "download") ~> (req[1].pc # "download")

\* A download that tried the three generic strategies, each refused, and
\* ended with an error.
AllStrategiesTriedReached ==
  \E r \in Observed :
    /\ call.value = <<"chrome", "firefox", "bot">>
    /\ req[r].h.nSoft = 3
    /\ req[r].pc = "done" /\ req[r].result.isError

\* C33: a request given only a filepath marks no scratch file, writes none,
\* issues no probe and no GET, never calls cleanupTempFile, and leaves the
\* disk as it was: no file created, the caller's files neither deleted nor
\* changed, at every point of the request and whatever its outcome.
LocalPathOwnsNoTempFile ==
  \A r \in Made :
    (req[r].url = NULL /\ req[r].argpath # NULL) =>
      /\ req[r].v.tempFilePath = NULL
      /\ req[r].h.wrote = NULL
      /\ req[r].h.nHead = 0 /\ req[r].h.nGet = 0
      /\ req[r].h.nCleanup = 0
      /\ tempDir = LocalDisk

\* A local-path request that failed at the analysis after its file was read
\* and uploaded.
LocalFailureReached ==
  \E r \in Made :
    /\ req[r].url = NULL /\ req[r].argpath = "/data/clip.mp4"
    /\ req[r].pc = "done" /\ req[r].result.isError
    /\ req[r].h.nProcess = 1

\* The platform a host belongs to, by its domain.
PlatformOfHost(host) ==
  CASE host = "video.fbcdn.net" -> "facebook"
    [] host = "scontent.cdninstagram.com" -> "instagram"
    [] OTHER -> "none"

\* C34: the strategy list returned for a URL is the one returned for every
\* URL of the same host; it is the Facebook list for a Facebook host, the
\* Instagram list for an Instagram host, and the generic list for any other
\* host, whatever the path and the query string.
StrategiesByHost ==
  call.op = "getStrategiesForUrl" =>
    /\ \A url \in StrategyUrls :
         UrlHost(url) = UrlHost(call.arg) => getStrategiesForUrl(url) = call.value
    /\ call.value =
         CASE PlatformOfHost(UrlHost(call.arg)) = "facebook" -> <<"facebook", "facebook-chrome">>
           [] PlatformOfHost(UrlHost(call.arg)) = "instagram" -> <<"instagram">>
           [] OTHER -> <<"chrome", "firefox", "bot">>

\* The store methods that need no index.
IndexFreeOps == {"findByUrl", "saveMedia", "updateAnalysis"}

\* A connect throws exactly when the connection itself was refused, and
\* after a connect whose index creation failed findByUrl, saveMedia and
\* updateAnalysis reach the collection.
IndexFailureSwallowed ==
  /\ call.op = "connect" =>
       (call.threw # NULL <=> call.arg.outcome = "connectionFailed")
  /\ (call.op \in IndexFreeOps /\ call.life = "connected" /\ call.indexes = "failed")
       => call.threw # notConnectedError /\ call.touched

\* C35 as stated: index creation failing does not make connect fail nor the
\* store unusable, and after a connect that failed the store is unusable.
UnusableAfterFailedConnect ==
  /\ IndexFailureSwallowed
  /\ (call.op \in IndexFreeOps /\ call.life = "connectFailed")
       => call.threw = notConnectedError

\* C35: index creation failing does not make connect fail nor the store
\* unusable; after a connect that failed the store is unusable exactly when
\* no connect has succeeded since construction or the last disconnect.
IndexSetupBestEffort ==
  /\ IndexFailureSwallowed
  /\ (call.op \in IndexFreeOps /\ call.life = "connectFailed")
       => (call.threw = notConnectedError <=> ~call.up)

\* A record was saved after a connect whose index creation had failed.
SavedWithoutIndexesReached ==
  /\ call.op = "saveMedia" /\ call.life = "connected" /\ call.indexes = "failed"
  /\ call.threw = NULL /\ Len(media) > Len(call.before)

\* The step inserted a record.
Inserted == Len(media') = Len(media) + 1

\* C36: a step of a tool that inserts a record inserts one with an analysis;
\* the request that downloaded or read its bytes returns in that step, without
\* error flag, the text that is the analysis' result; the record's url is
\* the request's URL, or its filepath when it has no URL; its fileSize is
\* the length of its fileData; no other record changes.
InsertedRecordComplete ==
  [][Inserted =>
       LET document == media'[Len(media')]
           r == document.fileData.by
       IN  /\ SubSeq(media', 1, Len(media)) = media
           /\ document.analysis # Nil
           /\ req[r].pc = "saveMedia" /\ req'[r].pc = "done"
           /\ ~req'[r].result.isError
           /\ document.analysis.result = req'[r].result.text
           /\ document.url = IF req[r].url # NULL THEN req[r].url ELSE req[r].argpath
           /\ document.fileSize = document.fileData.length]_vars

\* The audio tool inserted the record of a local file with its analysis.
LocalRecordReached ==
  \E k \in 1..Len(media) :
    /\ media[k].url = "/data/song.mp3" /\ media[k].analysis # Nil
    /\ req[1].pc = "done" /\ req[1].tool = "audio"
    /\ req[1].result = successResult(media[k].analysis.result)

\* The store has answered every request so far: no lookup failed and every
\* save that was answered inserted its record.
StoreAnswered ==
  \A r \in Made :
    /\ req[r].h.lookup # "failed"
    /\ req[r].h.nSave = req[r].h.nInsert + (IF req[r].pc = "saveMedia" THEN 1 ELSE 0)

\* The records the store holds for `url`.
RecordsOf(url) == {k \in 1..Len(media) : media[k].url = url}

\* C37: with requests made in turn, all with saveToDb, and a store that has
\* answered each of them, the store holds at most one record per URL, and a
\* request for a URL made after a request that analysed it with success is
\* a cache hit: no GET, no analysis, no insert, the stored text returned.
OneRecordPerUrl ==
  StoreAnswered =>
    /\ \A url \in Urls : Cardinality(RecordsOf(url)) <= 1
    /\ (/\ req[1].pc = "done" /\ req[1].h.analysis # NULL
        /\ req[2].pc \notin {"idle", "findByUrl"} /\ req[2].url = req[1].url)
       => /\ 2 \in Hits
          /\ req[2].pc = "done"
          /\ req[2].h.nGet = 0 /\ req[2].h.nProcess = 0 /\ req[2].h.nInsert = 0
          /\ req[2].result = successResult(req[1].h.analysis)

\* The second request for U2 was served from the one record the first had
\* inserted.
SecondRequestHitReached ==
  /\ StoreAnswered
  /\ req[1].url = U2 /\ req[1].h.nInsert = 1
  /\ req[2].url = U2 /\ req[2].pc = "done" /\ 2 \in Hits
  /\ Cardinality(RecordsOf(U2)) = 1

\* The MIME type a download resolved to.
ResolvedMimeType(r) ==
  IF req[r].h.resolved = NULL THEN "application/octet-stream" ELSE req[r].h.resolved

\* C38: a request whose lookup found a record with an analysis returns the
\* stored text without error flag and without a download, whatever the MIME
\* type of the record and the tool called; a request that downloaded a file
\* of a class its tool does not take ends with an error before any upload.
CacheHitSkipsClassCheck ==
  /\ \A r \in Hits :
       /\ req[r].pc = "done"
       /\ req[r].h.held = {req[r].result.text} /\ ~req[r].result.isError
       /\ req[r].h.nGet = 0 /\ req[r].h.nUpload = 0
  /\ \A r \in Made :
       (req[r].h.wrote # NULL /\ ~classMatches(req[r].tool, ResolvedMimeType(r)))
         => /\ req[r].pc = "done" /\ req[r].result.isError
            /\ req[r].h.nUpload = 0

\* An image request was served the analysis of a record that holds a video.
VideoRecordServedAsImageReached ==
  \E r \in Hits :
    /\ req[r].tool = "image" /\ ~req[r].result.isError
    /\ findOne(media, req[r].url) # Nil
    /\ findOne(media, req[r].url).mimeType = "video/mp4"
    /\ ~classMatches("image", findOne(media, req[r].url).mimeType)

\* The results the local-path branch gives for a path it rejects.
LocalRejections(tool, filepath) ==
  {errorResult(tool, ToolNoun(tool) \o " file not found: " \o filepath),
   errorResult(tool, "Unsupported " \o tool \o " format: " \o ExtName(filepath)
                       \o ". Supported formats are: " \o LocalFormatsText(tool))}

\* C39: a request that carries a URL and a filepath goes the way of the URL:
\* it looks the URL up or downloads it, it is never answered that its local
\* file is missing or of an unsupported format, the file it hands to the
\* backend is the scratch file it wrote, the bytes it holds are those of the
\* URL, and no record has the filepath as its url.
BothGivenUrlBranch ==
  \A r \in Made :
    (req[r].url # NULL /\ req[r].argpath # NULL) =>
      /\ req[r].h.lookup # "none" \/ req[r].h.nGet > 0 \/ req[r].pc = "download"
      /\ req[r].pc = "done" =>
           req[r].result \notin LocalRejections(req[r].tool, req[r].argpath)
      /\ req[r].pc \in {"uploadFile", "processFile", "saveMedia"} =>
           /\ req[r].v.filepath = req[r].h.wrote /\ req[r].v.filepath # req[r].argpath
           /\ req[r].v.fileData.src = req[r].url
           /\ req[r].v.sourceUrl = req[r].url
      /\ \A k \in 1..Len(media) : media[k].url # req[r].argpath

\* A request with a URL and the path of a file that does not exist stored
\* its analysis under the URL.
BothGivenSavedReached ==
  \E r \in Made :
    /\ req[r].url = U1 /\ req[r].argpath = "/data/gone.png"
    /\ req[r].pc = "done" /\ req[r].h.nInsert = 1 /\ ~req[r].result.isError
    /\ media[Len(media)].url = U1


====
